---- MODULE Spec2Model ----
(***************************************************************************)
(* A model of the lock-free stack of crates/pagecache/src/ds/stack.rs:     *)
(* Node, Stack::push, Stack::_pop, Stack::cap, Stack::cas, Stack::head,    *)
(* node_from_frag_vec and Node::drop, together with the contract of the    *)
(* epoch collaborator (pin, Guard::defer) the operations are written       *)
(* against.  Every access to the shared word `head` and every access to a  *)
(* published node's fields is one step of its thread; what a thread does   *)
(* to a node no other thread can reach yet is part of its next such step.  *)
(***************************************************************************)
EXTENDS Integers, Sequences, FiniteSets, TLC

(* ------------------------------ bounds -------------------------------- *)
\* number of threads calling into the stack
NumThreads == 2
\* number of Node allocations (Owned::new) a behaviour may make
MaxNodes == 3
\* longest vector handed to node_from_frag_vec
MaxFrag == 3
\* number of operations (push, _pop, cap, cas) a behaviour may start
MaxOps == 5
\* number of reads of freed memory that may yield something else than what
\* was last stored there; every further such read yields the stale content
MaxWild == 1

(* ------------------------------ domains ------------------------------- *)
\* the null pointer (Atomic::null, Shared::null)
NULL == 0
\* what ptr::read yields on memory whose content is no longer the value
Garbage == 0
\* Option::None as the return value of _pop
None == -1
\* a node destroyed twice or more is counted as destroyed twice
MaxDestroyCount == 2

Thread == 1..NumThreads
Node == 1..MaxNodes
Ptr == Node \cup {NULL}
\* The stack never inspects a value of type T, so the values handed to it
\* are taken pairwise distinct: the i-th value a behaviour hands over is i.
\* Every node holds one value, so there are as many values as nodes.
Val == 1..MaxNodes

VARIABLES
    head,       \* Stack.head
    inner,      \* Node.inner of every allocated node
    next,       \* Node.next of every allocated node
    nalloc,     \* number of nodes allocated so far (the next address is nalloc+1)
    destroyed,  \* how often each node has been destroyed (its Box dropped)
    deferred,   \* the closures handed to Guard::defer and not yet run
    dropping,   \* the node the running deferred destructor is about to drop
    dropRoot,   \* the node owned by the closure the running destructor belongs to
    pc,         \* per thread: position in its current operation
    node,       \* per thread: the node it built (push, cap) or the chain it passes as new (cas)
    hd,         \* per thread: the local `head` of push and _pop
    nxt,        \* per thread: the local `next` of _pop
    old,        \* per thread: the argument `old` of cap and cas
    arg,        \* per thread: the argument `new` of cap, a value
    last,       \* the outcome of the operation that returned last
    nops,       \* operations started
    nwild,      \* reads of freed memory that yielded something else than the stale content
    unlinkedBy, \* history: per node, how many _pop calls won the CAS unlinking it
    moved,      \* history: per node, whether _pop moved its value out to a caller
    absStack,   \* history: the values linked and not yet popped, in the order of the head CASes
    expect,     \* history: per thread, the top of absStack at its winning _pop CAS
    poppedCnt,  \* history: per value, how many _pop calls returned it
    onlyPushPop,  \* history: no operation other than push and _pop has begun
    popBegun,     \* history: some _pop has begun
    popEarly,     \* history: some _pop began before every push had returned
    capFailed,  \* history: the candidate nodes of failed cap calls
    casHanded,  \* history: the nodes of the chains cas handed to Guard::defer
    retries,    \* history: per thread, the compare_and_sets that failed in its push or _pop
    linked,     \* history: the nodes a successful compare_and_set has made reachable from head
    cur,        \* per thread: StackIter.inner, the cursor of its iterator
    torn        \* the Stack has been dropped

vars == <<head, inner, next, nalloc, destroyed, deferred, dropping, dropRoot,
          pc, node, hd, nxt, old, arg, last, nops, nwild, unlinkedBy, moved,
          absStack, expect, poppedCnt, onlyPushPop, popBegun, popEarly,
          capFailed, casHanded, linked, retries, cur,
          torn>>

heapVars == <<inner, next, nalloc, destroyed>>
dropVars == <<deferred, dropping, dropRoot>>
localVars == <<node, hd, nxt, old, arg>>
flagVars == <<onlyPushPop, popBegun, popEarly>>
histVars == <<unlinkedBy, moved, absStack, expect, poppedCnt, flagVars,
              capFailed, casHanded, linked, retries>>
\* what only StackIter and Stack::drop change
sideVars == <<cur, torn>>

(* ------------------------------ helpers ------------------------------- *)
\* The i-th value handed to the stack from now on.
FreshVal(i) == nalloc + i

\* The vector of the next k values, as handed to node_from_frag_vec.
FreshFrag(k) == [i \in 1..k |-> FreshVal(i)]

Min(a, b) == IF a < b THEN a ELSE b

\* The outcomes of loading `next` of node n.  Loading from a destroyed node
\* is a use after free: the load yields what was stored last, or what the
\* allocator has put there since: null, or the address of a freed node.
LoadNext(n) ==
    IF destroyed[n] > 0 /\ nwild < MaxWild
    THEN {next[n], NULL} \cup {m \in Node : destroyed[m] > 0}
    ELSE {next[n]}

\* The outcomes of ptr::read(&n.inner): the value, or what the freed memory
\* holds now.
ReadInner(n) ==
    IF destroyed[n] > 0 /\ nwild < MaxWild THEN {inner[n], Garbage}
    ELSE {inner[n]}

\* The nodes on the chain that starts at pointer p, following next.
RECURSIVE ChainFrom(_, _)
ChainFrom(p, seen) ==
    IF p = NULL \/ p \in seen THEN seen
    ELSE ChainFrom(next[p], seen \cup {p})

Chain(p) == ChainFrom(p, {})

\* The values on the chain that starts at p, top first.
RECURSIVE ChainVals(_, _)
ChainVals(p, seen) ==
    IF p = NULL \/ p \in seen THEN <<>>
    ELSE <<inner[p]>> \o ChainVals(next[p], seen \cup {p})

\* The outcome of an operation, as its caller sees it: the thread, the
\* operation, whether it returned Some / Ok, and the pointer or the value it
\* returned.
Outcome(t, op, ok, ptr, val) ==
    [t |-> t, op |-> op, ok |-> ok, ptr |-> ptr, val |-> val]

(* ------------------------- the epoch collaborator ---------------------- *)
\* The positions at which a thread holds the guard of pin(): _pop, cap and
\* cas are called with a guard, taken for the call, and so is the walk of a
\* StackIter; push takes none.
GuardedPc ==
    {"pop_loop", "pop_cas", "pop_read", "cap_cas", "cas_cas", "iter_loop"}

\* The pinned threads.
PinnedNow == {u \in Thread : pc[u] \in GuardedPc}

\* Guard::defer(move || owned) on the closures d: the closure owns node n and
\* may run only after every thread pinned now has dropped its guard.  The
\* collaborator keeps the closures as a bag and promises no order among
\* them; the bag is held as a sequence ordered by node.
Defer(d, n) ==
    LET k == Cardinality({i \in 1..Len(d) : d[i].node <= n})
    IN  [i \in 1..(Len(d) + 1) |->
           IF i <= k THEN d[i]
           ELSE IF i = k + 1 THEN [node |-> n, wait |-> PinnedNow]
           ELSE d[i - 1]]

\* Thread t drops its guard: the closures d wait for it no longer.
Unpin(d, t) == [i \in 1..Len(d) |-> [d[i] EXCEPT !.wait = @ \ {t}]]

Init ==
    /\ head = NULL
    /\ inner = [n \in Node |-> Garbage]
    /\ next = [n \in Node |-> NULL]
    /\ nalloc = 0
    /\ destroyed = [n \in Node |-> 0]
    /\ deferred = <<>>
    /\ dropping = NULL
    /\ dropRoot = NULL
    /\ pc = [t \in Thread |-> "idle"]
    /\ node = [t \in Thread |-> NULL]
    /\ hd = [t \in Thread |-> NULL]
    /\ nxt = [t \in Thread |-> NULL]
    /\ old = [t \in Thread |-> NULL]
    /\ arg = [t \in Thread |-> None]
    /\ last = Outcome(NULL, "none", FALSE, NULL, None)
    /\ nops = 0
    /\ nwild = 0
    /\ unlinkedBy = [n \in Node |-> 0]
    /\ moved = [n \in Node |-> FALSE]
    /\ absStack = <<>>
    /\ expect = [t \in Thread |-> None]
    /\ poppedCnt = [v \in Val \cup {Garbage} |-> 0]
    /\ onlyPushPop = TRUE
    /\ popBegun = FALSE
    /\ popEarly = FALSE
    /\ capFailed = {}
    /\ casHanded = {}
    /\ linked = {}
    /\ retries = [t \in Thread |-> 0]
    /\ cur = [t \in Thread |-> NULL]
    /\ torn = FALSE

\* The collaborator runs a deferred closure once no thread pinned at the
\* time of the defer still holds its guard: the Owned node is dropped.
RunDeferred(i) ==
    /\ dropping = NULL
    /\ deferred[i].wait = {}
    /\ dropping' = deferred[i].node
    /\ dropRoot' = deferred[i].node
    /\ deferred' = [j \in 1..(Len(deferred) - 1) |->
                      IF j < i THEN deferred[j] ELSE deferred[j + 1]]
    /\ UNCHANGED <<sideVars, head, heapVars, pc, localVars, last, nops, nwild, histVars>>

(* ------------------------------ Node::drop ----------------------------- *)
\* A mutant of NodeDrop: the node is destroyed alone, its next is not followed.
NodeDropTopOnly ==
    /\ dropping # NULL
    /\ dropping' = NULL
    /\ dropRoot' = NULL
    /\ nwild' = nwild
    /\ destroyed' = [destroyed EXCEPT
                       ![dropping] = Min(@ + 1, MaxDestroyCount)]
    /\ UNCHANGED <<sideVars, head, inner, next, nalloc, deferred, pc, localVars, last,
                   nops, histVars>>

\* Node::drop on the node `dropping`: load its next; the node, and with it
\* its field inner, is destroyed, and when next is not null the Box made
\* from it is dropped in turn.
NodeDrop ==
    /\ dropping # NULL
    /\ \E nx \in LoadNext(dropping) :
          /\ dropping' = nx
          /\ dropRoot' = IF nx = NULL THEN NULL ELSE dropRoot
          /\ nwild' = IF nx = next[dropping] THEN nwild ELSE nwild + 1
    /\ destroyed' = [destroyed EXCEPT
                       ![dropping] = Min(@ + 1, MaxDestroyCount)]
    /\ UNCHANGED <<sideVars, head, inner, next, nalloc, deferred, pc, localVars, last,
                   nops, histVars>>

(* ------------------------------ Stack::push ---------------------------- *)
\* Owned::new(Node { inner, next: null }).into_shared(unprotected()), and the
\* first round of the loop up to its compare_and_set:
\* let head = self.head(unprotected()); node.next.store(head)
PushBegin(t) ==
    /\ pc[t] = "idle"
    /\ nops < MaxOps
    /\ nalloc < MaxNodes
    /\ nalloc' = nalloc + 1
    /\ inner' = [inner EXCEPT ![nalloc + 1] = FreshVal(1)]
    /\ next' = [next EXCEPT ![nalloc + 1] = head]
    /\ node' = [node EXCEPT ![t] = nalloc + 1]
    /\ hd' = [hd EXCEPT ![t] = head]
    /\ pc' = [pc EXCEPT ![t] = "push_cas"]
    /\ nops' = nops + 1
    /\ popEarly' = (popEarly \/ popBegun)
    /\ UNCHANGED <<retries, sideVars, linked, head, destroyed, dropVars, nxt, old, arg, last, nwild,
                   unlinkedBy, moved, absStack, expect, poppedCnt, popBegun, onlyPushPop,
                   capFailed, casHanded>>

\* a later round of the loop:
\* let head = self.head(unprotected()); node.next.store(head)
PushLoad(t) ==
    /\ pc[t] = "push_load"
    /\ hd' = [hd EXCEPT ![t] = head]
    /\ next' = [next EXCEPT ![node[t]] = head]
    /\ pc' = [pc EXCEPT ![t] = "push_cas"]
    /\ UNCHANGED <<sideVars, head, inner, nalloc, destroyed, dropVars, node, nxt, old, arg,
                   last, nops, nwild, histVars>>

\* head.compare_and_set(head, node) is Ok: return
PushCasOk(t) ==
    /\ pc[t] = "push_cas"
    /\ head = hd[t]
    /\ head' = node[t]
    /\ pc' = [pc EXCEPT ![t] = "idle"]
    /\ node' = [node EXCEPT ![t] = NULL]
    /\ hd' = [hd EXCEPT ![t] = NULL]
    /\ last' = Outcome(t, "push", TRUE, NULL, None)
    /\ absStack' = <<inner[node[t]]>> \o absStack
    /\ linked' = linked \cup {node[t]}
    /\ retries' = [retries EXCEPT ![t] = 0]
    /\ UNCHANGED <<sideVars, heapVars, dropVars, nxt, old, arg, nops, nwild, unlinkedBy,
                   moved, expect, poppedCnt, flagVars, capFailed, casHanded>>

\* A mutant of PushCasErr: the compare_and_set may fail although head is
\* what was loaded.
PushCasErrSpurious(t) ==
    /\ pc[t] = "push_cas"
    /\ pc' = [pc EXCEPT ![t] = "push_load"]
    /\ retries' = [retries EXCEPT ![t] = @ + 1]
    /\ UNCHANGED <<sideVars, head, heapVars, dropVars, localVars, last, nops,
                   nwild, unlinkedBy, moved, absStack, expect, poppedCnt,
                   flagVars, capFailed, casHanded, linked>>

\* head.compare_and_set(head, node) is Err: loop
PushCasErr(t) ==
    /\ pc[t] = "push_cas"
    /\ head # hd[t]
    /\ pc' = [pc EXCEPT ![t] = "push_load"]
    /\ retries' = [retries EXCEPT ![t] = @ + 1]
    /\ UNCHANGED <<sideVars, head, heapVars, dropVars, localVars, last, nops, nwild,
                   unlinkedBy, moved, absStack, expect, poppedCnt,
                   flagVars, capFailed, casHanded, linked>>

(* ------------------------------ Stack::_pop ---------------------------- *)
\* let guard = pin(); ... let mut head = self.head(&guard)
PopBegin(t) ==
    /\ pc[t] = "idle"
    /\ nops < MaxOps
    /\ hd' = [hd EXCEPT ![t] = head]
    /\ pc' = [pc EXCEPT ![t] = "pop_loop"]
    /\ nops' = nops + 1
    /\ popBegun' = TRUE
    /\ popEarly' = (popEarly \/ \E u \in Thread :
                                   pc[u] \in {"push_cas", "push_load"})
    /\ UNCHANGED <<retries, sideVars, linked, head, heapVars, dropVars, node, nxt, old, arg, last, nwild,
                   unlinkedBy, moved, absStack, expect, poppedCnt, onlyPushPop,
                   capFailed, casHanded>>

\* A mutant of PopNone: on a null head the call waits for a push and looks
\* again instead of returning.
PopNoneWait(t) ==
    /\ pc[t] = "pop_loop"
    /\ hd[t] = NULL
    /\ head # NULL
    /\ hd' = [hd EXCEPT ![t] = head]
    /\ UNCHANGED <<sideVars, head, heapVars, dropVars, pc, node, nxt, old, arg, last,
                   nops, nwild, histVars>>

\* match head.as_ref() { None => return None }
PopNone(t) ==
    /\ pc[t] = "pop_loop"
    /\ hd[t] = NULL
    /\ pc' = [pc EXCEPT ![t] = "idle"]
    /\ last' = Outcome(t, "pop", FALSE, NULL, None)
    /\ deferred' = Unpin(deferred, t)
    /\ retries' = [retries EXCEPT ![t] = 0]
    /\ UNCHANGED <<sideVars, head, heapVars, dropping, dropRoot, localVars, nops, nwild,
                   unlinkedBy, moved, absStack, expect, poppedCnt,
                   flagVars, capFailed, casHanded, linked>>

\* Some(h) => let next = h.next.load(SeqCst, &guard)
PopLoadNext(t) ==
    /\ pc[t] = "pop_loop"
    /\ hd[t] # NULL
    /\ \E nx \in LoadNext(hd[t]) :
          /\ nxt' = [nxt EXCEPT ![t] = nx]
          /\ nwild' = IF nx = next[hd[t]] THEN nwild ELSE nwild + 1
    /\ pc' = [pc EXCEPT ![t] = "pop_cas"]
    /\ UNCHANGED <<sideVars, head, heapVars, dropVars, node, hd, old, arg, last, nops,
                   histVars>>

\* head.compare_and_set(head, next) is Ok:
\*   let head_owned = head.into_owned(); guard.defer(move || head_owned)
PopCasOk(t) ==
    /\ pc[t] = "pop_cas"
    /\ head = hd[t]
    /\ head' = nxt[t]
    /\ deferred' = Defer(deferred, hd[t])
    /\ pc' = [pc EXCEPT ![t] = "pop_read"]
    /\ unlinkedBy' = [unlinkedBy EXCEPT ![hd[t]] = Min(@ + 1, MaxDestroyCount)]
    /\ expect' = [expect EXCEPT
                    ![t] = IF absStack = <<>> THEN None ELSE Head(absStack)]
    /\ absStack' = IF absStack = <<>> THEN <<>> ELSE Tail(absStack)
    /\ linked' = linked \cup Chain(nxt[t])
    /\ UNCHANGED <<retries, sideVars, heapVars, dropping, dropRoot, localVars, last, nops, nwild,
                   moved, poppedCnt, flagVars, capFailed, casHanded>>

\* head.compare_and_set(head, next) is Err(h): head = h.current
PopCasErr(t) ==
    /\ pc[t] = "pop_cas"
    /\ head # hd[t]
    /\ hd' = [hd EXCEPT ![t] = head]
    /\ pc' = [pc EXCEPT ![t] = "pop_loop"]
    /\ retries' = [retries EXCEPT ![t] = @ + 1]
    /\ UNCHANGED <<sideVars, head, heapVars, dropVars, node, nxt, old, arg, last, nops,
                   nwild, unlinkedBy, moved, absStack, expect, poppedCnt,
                   flagVars, capFailed, casHanded, linked>>

\* return Some(ptr::read(&h.inner))
PopRead(t) ==
    /\ pc[t] = "pop_read"
    /\ \E v \in ReadInner(hd[t]) :
          /\ last' = Outcome(t, "pop", TRUE, hd[t], v)
          /\ poppedCnt' = [poppedCnt EXCEPT ![v] = @ + 1]
          /\ nwild' = IF v = inner[hd[t]] THEN nwild ELSE nwild + 1
    /\ moved' = [moved EXCEPT ![hd[t]] = TRUE]
    /\ pc' = [pc EXCEPT ![t] = "idle"]
    /\ hd' = [hd EXCEPT ![t] = NULL]
    /\ nxt' = [nxt EXCEPT ![t] = NULL]
    /\ expect' = [expect EXCEPT ![t] = None]
    /\ deferred' = Unpin(deferred, t)
    /\ retries' = [retries EXCEPT ![t] = 0]
    /\ UNCHANGED <<sideVars, linked, head, heapVars, dropping, dropRoot, node, old, arg, nops,
                   unlinkedBy, absStack, flagVars,
                   capFailed, casHanded>>

(* ------------------------------ Stack::cap ----------------------------- *)
\* A mutant of CapBegin: the new node is built with next null, not old.
CapBeginUnlinked(t, o) ==
    /\ pc[t] = "idle"
    /\ nops < MaxOps
    /\ nalloc < MaxNodes
    /\ nalloc' = nalloc + 1
    /\ inner' = [inner EXCEPT ![nalloc + 1] = FreshVal(1)]
    /\ next' = [next EXCEPT ![nalloc + 1] = NULL]
    /\ node' = [node EXCEPT ![t] = nalloc + 1]
    /\ old' = [old EXCEPT ![t] = o]
    /\ arg' = [arg EXCEPT ![t] = FreshVal(1)]
    /\ pc' = [pc EXCEPT ![t] = "cap_cas"]
    /\ nops' = nops + 1
    /\ onlyPushPop' = FALSE
    /\ UNCHANGED <<retries, sideVars, linked, head, destroyed, dropVars, hd, nxt, last, nwild,
                   unlinkedBy, moved, absStack, expect, poppedCnt, popBegun, popEarly,
                   capFailed, casHanded>>

\* let guard = pin(); cap(o, new, &guard) with o the snapshot head(&guard)
\* or null and new the next value: Owned::new(Node { inner: new, next: Atomic::from(old) })
CapBegin(t, o) ==
    /\ pc[t] = "idle"
    /\ nops < MaxOps
    /\ nalloc < MaxNodes
    /\ nalloc' = nalloc + 1
    /\ inner' = [inner EXCEPT ![nalloc + 1] = FreshVal(1)]
    /\ next' = [next EXCEPT ![nalloc + 1] = o]
    /\ node' = [node EXCEPT ![t] = nalloc + 1]
    /\ old' = [old EXCEPT ![t] = o]
    /\ arg' = [arg EXCEPT ![t] = FreshVal(1)]
    /\ pc' = [pc EXCEPT ![t] = "cap_cas"]
    /\ nops' = nops + 1
    /\ onlyPushPop' = FALSE
    /\ UNCHANGED <<retries, sideVars, linked, head, destroyed, dropVars, hd, nxt, last, nwild,
                   unlinkedBy, moved, absStack, expect, poppedCnt, popBegun, popEarly,
                   capFailed, casHanded>>

\* A mutant of CapOk: the node it has just linked gets its next reset to
\* null, as the failure path does with the node it gives up.
CapOkResetNext(t) ==
    /\ pc[t] = "cap_cas"
    /\ head = old[t]
    /\ head' = node[t]
    /\ next' = [next EXCEPT ![node[t]] = NULL]
    /\ last' = Outcome(t, "cap", TRUE, node[t], None)
    /\ pc' = [pc EXCEPT ![t] = "idle"]
    /\ node' = [node EXCEPT ![t] = NULL]
    /\ old' = [old EXCEPT ![t] = NULL]
    /\ arg' = [arg EXCEPT ![t] = None]
    /\ deferred' = Unpin(deferred, t)
    /\ absStack' = <<inner[node[t]]>> \o absStack
    /\ linked' = linked \cup {node[t]}
    /\ UNCHANGED <<retries, sideVars, inner, nalloc, destroyed, dropping, dropRoot, hd,
                   nxt, nops, nwild, unlinkedBy, moved, expect, poppedCnt,
                   flagVars, capFailed, casHanded>>

\* head.compare_and_set(old, node) is Ok(_) => Ok(node)
CapOk(t) ==
    /\ pc[t] = "cap_cas"
    /\ head = old[t]
    /\ head' = node[t]
    /\ last' = Outcome(t, "cap", TRUE, node[t], None)
    /\ pc' = [pc EXCEPT ![t] = "idle"]
    /\ node' = [node EXCEPT ![t] = NULL]
    /\ old' = [old EXCEPT ![t] = NULL]
    /\ arg' = [arg EXCEPT ![t] = None]
    /\ deferred' = Unpin(deferred, t)
    /\ absStack' = <<inner[node[t]]>> \o absStack
    /\ linked' = linked \cup {node[t]}
    /\ UNCHANGED <<retries, sideVars, heapVars, dropping, dropRoot, hd, nxt, nops, nwild,
                   unlinkedBy, moved, expect, poppedCnt, flagVars,
                   capFailed, casHanded>>

\* A mutant of CapErr: the candidate keeps its next when it is handed over.
CapErrKeepNext(t) ==
    /\ pc[t] = "cap_cas"
    /\ head # old[t]
    /\ next' = next
    /\ deferred' = Unpin(Defer(deferred, node[t]), t)
    /\ last' = Outcome(t, "cap", FALSE, head, None)
    /\ pc' = [pc EXCEPT ![t] = "idle"]
    /\ node' = [node EXCEPT ![t] = NULL]
    /\ old' = [old EXCEPT ![t] = NULL]
    /\ arg' = [arg EXCEPT ![t] = None]
    /\ capFailed' = capFailed \cup {node[t]}
    /\ UNCHANGED <<retries, sideVars, linked, casHanded, head, inner, nalloc, destroyed, dropping, dropRoot, hd,
                   nxt, nops, nwild, unlinkedBy, moved, absStack, expect,
                   poppedCnt, flagVars>>

\* head.compare_and_set(old, node) is Err(e):
\*   node.next.store(null); guard.defer(move || node_owned); Err(e.current)
CapErr(t) ==
    /\ pc[t] = "cap_cas"
    /\ head # old[t]
    /\ next' = [next EXCEPT ![node[t]] = NULL]
    /\ deferred' = Unpin(Defer(deferred, node[t]), t)
    /\ last' = Outcome(t, "cap", FALSE, head, None)
    /\ pc' = [pc EXCEPT ![t] = "idle"]
    /\ node' = [node EXCEPT ![t] = NULL]
    /\ old' = [old EXCEPT ![t] = NULL]
    /\ arg' = [arg EXCEPT ![t] = None]
    /\ capFailed' = capFailed \cup {node[t]}
    /\ UNCHANGED <<retries, sideVars, linked, casHanded, head, inner, nalloc, destroyed, dropping, dropRoot, hd,
                   nxt, nops, nwild, unlinkedBy, moved, absStack, expect,
                   poppedCnt, flagVars>>

(* -------------------------- node_from_frag_vec ------------------------- *)
\* The address of the node built for from[i]: the vector is walked in
\* reverse, so the last item is allocated first.
FragNode(from, i) == nalloc + (Len(from) - i + 1)

\* next of the node built for from[i]: null for the last item, else the
\* node built in the round before, which holds from[i + 1].
FragNext(from, i) == IF i = Len(from) THEN NULL ELSE FragNode(from, i + 1)

\* A mutant of FragLoop: an empty vector yields the null pointer.
RECURSIVE FragLoopOrNull(_, _, _)
FragLoopOrNull(from, i, lastp) ==
    IF i = 0 THEN (IF lastp = None THEN NULL ELSE lastp)
    ELSE FragLoopOrNull(from, i - 1, FragNode(from, i))

\* let mut last = None; for item in from.into_iter().rev() { last = Some(..) }
\* The value of `last` once the items from[i], from[i - 1], .., from[1] have
\* been built on top of lastp, None standing for Option::None.
RECURSIVE FragLoop(_, _, _)
FragLoop(from, i, lastp) ==
    IF i = 0 THEN lastp
    ELSE FragLoop(from, i - 1, FragNode(from, i))

\* node_from_frag_vec(vec![]) by thread t, which would go on to publish the
\* chain with cas(head, chain): last.expect(..) panics when the loop leaves
\* None, and the thread unwinds.
BuildEmpty(t) ==
    /\ pc[t] = "idle"
    /\ nops < MaxOps
    /\ nops' = nops + 1
    /\ onlyPushPop' = FALSE
    /\ LET r == FragLoop(<<>>, 0, None)
       IN  IF r = None
           THEN /\ pc' = [pc EXCEPT ![t] = "panicked"]
                /\ last' = Outcome(t, "build", FALSE, NULL, None)
                /\ UNCHANGED <<node, old>>
           ELSE /\ pc' = [pc EXCEPT ![t] = "cas_cas"]
                /\ last' = Outcome(t, "build", TRUE, r, None)
                /\ node' = [node EXCEPT ![t] = r]
                /\ old' = [old EXCEPT ![t] = head]
    /\ UNCHANGED <<head, heapVars, dropVars, hd, nxt, arg, nwild, sideVars,
                   unlinkedBy, moved, absStack, expect, poppedCnt, popBegun,
                   popEarly, capFailed, casHanded, linked, retries>>

(* ------------------------------ Stack::cas ----------------------------- *)
\* let guard = pin(); cas(o, new, &guard) with o the snapshot head(&guard) or
\* null, and new the chain node_from_frag_vec(from) returns.
CasBegin(t, from, o) ==
    /\ pc[t] = "idle"
    /\ nops < MaxOps
    /\ nalloc + Len(from) <= MaxNodes
    /\ nalloc' = nalloc + Len(from)
    /\ inner' = [n \in Node |->
                   IF n \in (nalloc + 1)..(nalloc + Len(from))
                   THEN from[nalloc + Len(from) - n + 1] ELSE inner[n]]
    /\ next' = [n \in Node |->
                  IF n \in (nalloc + 1)..(nalloc + Len(from))
                  THEN FragNext(from, nalloc + Len(from) - n + 1) ELSE next[n]]
    /\ node' = [node EXCEPT ![t] = FragNode(from, 1)]
    /\ old' = [old EXCEPT ![t] = o]
    /\ pc' = [pc EXCEPT ![t] = "cas_cas"]
    /\ nops' = nops + 1
    /\ onlyPushPop' = FALSE
    /\ UNCHANGED <<retries, sideVars, linked, arg, head, destroyed, dropVars, hd, nxt, last, nwild,
                   unlinkedBy, moved, absStack, expect, poppedCnt, popBegun, popEarly,
                   capFailed, casHanded>>

\* let guard = pin(); cas(o, Shared::null(), &guard)
CasBeginNull(t, o) ==
    /\ pc[t] = "idle"
    /\ nops < MaxOps
    /\ node' = [node EXCEPT ![t] = NULL]
    /\ old' = [old EXCEPT ![t] = o]
    /\ pc' = [pc EXCEPT ![t] = "cas_cas"]
    /\ nops' = nops + 1
    /\ onlyPushPop' = FALSE
    /\ UNCHANGED <<retries, sideVars, linked, arg, head, heapVars, dropVars, hd, nxt, last, nwild,
                   unlinkedBy, moved, absStack, expect, poppedCnt, popBegun, popEarly,
                   capFailed, casHanded>>

\* A mutant of CasOk: head is swapped whatever it holds.
CasOkBlind(t) ==
    /\ pc[t] = "cas_cas"
    /\ head' = node[t]
    /\ deferred' = Unpin(IF old[t] # NULL THEN Defer(deferred, old[t])
                         ELSE deferred, t)
    /\ last' = Outcome(t, "cas", TRUE, node[t], None)
    /\ pc' = [pc EXCEPT ![t] = "idle"]
    /\ node' = [node EXCEPT ![t] = NULL]
    /\ old' = [old EXCEPT ![t] = NULL]
    /\ absStack' = ChainVals(node[t], {})
    /\ casHanded' = casHanded \cup Chain(old[t])
    /\ linked' = linked \cup Chain(node[t])
    /\ UNCHANGED <<retries, sideVars, arg, heapVars, dropping, dropRoot, hd, nxt, nops, nwild,
                   unlinkedBy, moved, expect, poppedCnt, flagVars,
                   capFailed>>

\* head.compare_and_set(old, new) is Ok(_):
\*   if !old.is_null() { guard.defer(move || old_owned) }; Ok(new)
CasOk(t) ==
    /\ pc[t] = "cas_cas"
    /\ head = old[t]
    /\ head' = node[t]
    /\ deferred' = Unpin(IF old[t] # NULL THEN Defer(deferred, old[t])
                         ELSE deferred, t)
    /\ last' = Outcome(t, "cas", TRUE, node[t], None)
    /\ pc' = [pc EXCEPT ![t] = "idle"]
    /\ node' = [node EXCEPT ![t] = NULL]
    /\ old' = [old EXCEPT ![t] = NULL]
    /\ absStack' = ChainVals(node[t], {})
    /\ casHanded' = casHanded \cup Chain(old[t])
    /\ linked' = linked \cup Chain(node[t])
    /\ UNCHANGED <<retries, sideVars, arg, heapVars, dropping, dropRoot, hd, nxt, nops, nwild,
                   unlinkedBy, moved, expect, poppedCnt, flagVars,
                   capFailed>>

\* head.compare_and_set(old, new) is Err(e):
\*   if !new.is_null() { guard.defer(move || new_owned) }; Err(e.current)
CasErr(t) ==
    /\ pc[t] = "cas_cas"
    /\ head # old[t]
    /\ deferred' = Unpin(IF node[t] # NULL THEN Defer(deferred, node[t])
                         ELSE deferred, t)
    /\ last' = Outcome(t, "cas", FALSE, head, None)
    /\ pc' = [pc EXCEPT ![t] = "idle"]
    /\ node' = [node EXCEPT ![t] = NULL]
    /\ old' = [old EXCEPT ![t] = NULL]
    /\ casHanded' = casHanded \cup Chain(node[t])
    /\ UNCHANGED <<retries, sideVars, linked, arg, head, heapVars, dropping, dropRoot, hd, nxt, nops, nwild,
                   unlinkedBy, moved, absStack, expect, poppedCnt, flagVars,
                   capFailed>>

(* ------------------------------- StackIter ----------------------------- *)
\* let guard = pin(); let head = self.head(&guard);
\* let iter = StackIter::from_ptr(head, &guard)        (as Debug::fmt does)
IterBegin(t) ==
    /\ pc[t] = "idle"
    /\ nops < MaxOps
    /\ cur' = [cur EXCEPT ![t] = head]
    /\ pc' = [pc EXCEPT ![t] = "iter_loop"]
    /\ nops' = nops + 1
    /\ onlyPushPop' = FALSE
    /\ UNCHANGED <<retries, head, heapVars, dropVars, localVars, last, nwild, torn,
                   unlinkedBy, moved, absStack, expect, poppedCnt, popBegun,
                   popEarly, capFailed, casHanded, linked>>

\* StackIter::next on a cursor that is not null:
\*   let ret = &self.inner.deref().inner;
\*   self.inner = self.inner.deref().next.load(SeqCst, self.guard); Some(ret)
IterYield(t) ==
    /\ pc[t] = "iter_loop"
    /\ cur[t] # NULL
    /\ \E v \in ReadInner(cur[t]), nx \in LoadNext(cur[t]) :
          /\ last' = Outcome(t, "iter", TRUE, cur[t], v)
          /\ cur' = [cur EXCEPT ![t] = nx]
          /\ nwild' = IF v = inner[cur[t]] /\ nx = next[cur[t]]
                      THEN nwild ELSE nwild + 1
    /\ UNCHANGED <<head, heapVars, dropVars, pc, localVars, nops, histVars,
                   torn>>

\* StackIter::next on a null cursor: None; the walk is over and its guard is
\* dropped.
IterEnd(t) ==
    /\ pc[t] = "iter_loop"
    /\ cur[t] = NULL
    /\ last' = Outcome(t, "iter", FALSE, NULL, None)
    /\ pc' = [pc EXCEPT ![t] = "idle"]
    /\ deferred' = Unpin(deferred, t)
    /\ UNCHANGED <<head, heapVars, dropping, dropRoot, localVars, nops, nwild,
                   histVars, sideVars>>

Next ==
    \/ \E i \in 1..Len(deferred) : RunDeferred(i)
    \/ NodeDrop
    \/ \E t \in Thread : PushBegin(t)
    \/ \E t \in Thread : PushLoad(t)
    \/ \E t \in Thread : PushCasOk(t)
    \/ \E t \in Thread : PushCasErr(t)
    \/ \E t \in Thread : PopBegin(t)
    \/ \E t \in Thread : PopNone(t)
    \/ \E t \in Thread : PopLoadNext(t)
    \/ \E t \in Thread : PopCasOk(t)
    \/ \E t \in Thread : PopCasErr(t)
    \/ \E t \in Thread : PopRead(t)
    \/ \E t \in Thread, o \in {head, NULL} : CapBegin(t, o)
    \/ \E t \in Thread : CapOk(t)
    \/ \E t \in Thread : CapErr(t)
    \/ \E t \in Thread, k \in 1..MaxFrag, o \in {head, NULL} :
          CasBegin(t, FreshFrag(k), o)
    \/ \E t \in Thread, o \in {head, NULL} : CasBeginNull(t, o)
    \/ \E t \in Thread : CasOk(t)
    \/ \E t \in Thread : CasErr(t)

Spec == Init /\ [][Next]_vars

\* The stack with walks of StackIter among the operations on it.
IterStep == \E t \in Thread : IterBegin(t) \/ IterYield(t) \/ IterEnd(t)

IterSpec == Init /\ [][Next \/ IterStep]_vars

\* The stack with calls of node_from_frag_vec on an empty vector among the
\* operations.
BuilderSpec == Init /\ [][Next \/ \E t \in Thread : BuildEmpty(t)]_vars

\* A chain is built from a vector and published on the empty stack with
\* cas(null, chain); the stack is then drained by _pop calls.
DrainNext ==
    \/ nops = 0 /\ \E t \in Thread, k \in 1..MaxFrag :
                      CasBegin(t, FreshFrag(k), NULL)
    \/ \E t \in Thread : CasOk(t)
    \/ linked # {} /\ \E t \in Thread : PopBegin(t)
    \/ \E t \in Thread : PopNone(t)
    \/ \E t \in Thread : PopLoadNext(t)
    \/ \E t \in Thread : PopCasOk(t)
    \/ \E t \in Thread : PopCasErr(t)
    \/ \E t \in Thread : PopRead(t)
    \/ \E i \in 1..Len(deferred) : RunDeferred(i)
    \/ NodeDrop

DrainSpec == Init /\ [][DrainNext]_vars

(* ------------------------------ Stack::drop ---------------------------- *)
\* impl Drop for Stack, run by the one thread that owns the stack once no
\* call is in progress and no destructor is running:
\*   let curr = self.head.load(..); if !curr.is_null() { drop(Box::from_raw(curr)) }
\* The drop of the Box is Node::drop on the head node, which goes on through
\* next.
StackDrop ==
    /\ ~torn
    /\ \A t \in Thread : pc[t] = "idle"
    /\ dropping = NULL
    /\ torn' = TRUE
    /\ dropping' = head
    /\ dropRoot' = head
    /\ UNCHANGED <<head, heapVars, deferred, pc, localVars, last, nops, nwild,
                   histVars, cur>>

\* The stack is used and then dropped; the closures deferred before may run
\* before the drop or after it.
TeardownNext ==
    \/ ~torn /\ Next
    \/ StackDrop
    \/ torn /\ \E i \in 1..Len(deferred) : RunDeferred(i)
    \/ torn /\ NodeDrop

TeardownSpec == Init /\ [][TeardownNext]_vars

\* The steps by which thread t goes on with the call it is in.
Continue(t) ==
    \/ PushLoad(t) \/ PushCasOk(t) \/ PushCasErr(t)
    \/ PopNone(t) \/ PopLoadNext(t) \/ PopCasOk(t) \/ PopCasErr(t)
    \/ PopRead(t)
    \/ CapOk(t) \/ CapErr(t) \/ CasOk(t) \/ CasErr(t)

\* The collaborator starts a closure that may run.
Collect == \E i \in 1..Len(deferred) : RunDeferred(i)

\* The behaviours in which every thread goes on with the call it is in (no
\* operation blocks, and the scheduler is fair), and the collaborator runs
\* every closure that may run and every destructor it has started.
FairSpec ==
    /\ Spec
    /\ \A t \in Thread : WF_vars(Continue(t))
    /\ WF_vars(Collect)
    /\ WF_vars(NodeDrop)

(* ------------------------------ the claims ----------------------------- *)
\* Every thread is between two calls.
AllIdle == \A t \in Thread : pc[t] = "idle"

\* The drop of a node drops its fields: when the Box of node n is destroyed,
\* n.inner, a plain field of type T, is destroyed with it.
InnerDropped(n) == destroyed[n] > 0

\* C1: in any interleaving of threads running push and pop, no two pop calls
\* return the value of the same linked node: for each node at most one pop
\* call wins the compare-and-swap that unlinks it.
C1_OnePopPerNode ==
    onlyPushPop => \A n \in Node : unlinkedBy[n] <= 1

\* C2: once all the pushes have returned, draining the stack by repeated pop
\* until it reports empty yields exactly the multiset of the pushed values:
\* each value pushed (the values 1..nalloc, once each) is returned once, and
\* nothing else is returned.
C2_DrainYieldsPushed ==
    (/\ onlyPushPop
     /\ ~popEarly
     /\ AllIdle
     /\ last.op = "pop"
     /\ ~last.ok)
    => \A v \in Val \cup {Garbage} :
          poppedCnt[v] = IF v \in 1..nalloc THEN 1 ELSE 0

\* C3: the stack is LIFO in the order of the successful head CASes: a pop
\* that returns a value returns the value of the most recently linked node
\* that has not been popped yet.
C3_PopReturnsLastLinked ==
    [][\A t \in Thread :
          (pc[t] = "pop_read" /\ pc'[t] = "idle")
          => (last'.ok /\ last'.val = expect[t])]_vars

\* C4: a node reachable from head is never destroyed.
C4_ReachableNeverDestroyed ==
    \A n \in Chain(head) : destroyed[n] = 0

\* C5: every node is destroyed at most once, whichever deferred handles
\* own it.
C5_DestroyedAtMostOnce ==
    \A n \in Node : destroyed[n] <= 1

\* C10: the value a pop returned belongs to the caller: the destructor of
\* the node it was moved out of never destroys it.
C10_MovedValueNotDropped ==
    \A n \in Node : moved[n] => ~InnerDropped(n)

\* A closure that owns node n is among the closures d.
Owns(d, n) == \E i \in 1..Len(d) : d[i].node = n

\* Thread t takes the step that ends its call at position p.
Returns(t, p) == pc[t] = p /\ pc'[t] = "idle"

\* C6: compare_and_swap(old, new) succeeds if and only if old equals head at
\* its atomic step; on success head becomes new and Ok(new) is returned; on
\* failure head and every node are unchanged and Err(the current head) is
\* returned.
C6_CasStep ==
    [][\A t \in Thread :
          Returns(t, "cas_cas") =>
             /\ last'.op = "cas" /\ last'.t = t
             /\ last'.ok <=> (old[t] = head)
             /\ last'.ok => (head' = node[t] /\ last'.ptr = node[t])
             /\ ~last'.ok => /\ head' = head
                             /\ next' = next
                             /\ inner' = inner
                             /\ last'.ptr = head]_vars

\* C6, its case: a cas that replaced a non-empty stack by a chain has
\* returned, and head is the chain it returned.
C6_Witness ==
    /\ last.op = "cas" /\ last.ok
    /\ last.ptr # NULL /\ head = last.ptr
    /\ deferred # <<>>

\* C7: compare_and_swap leaks no node.  At its step the chain it gives up
\* (that of old on success, that of new on failure) is handed to deferred
\* destruction by handing over its first node, and nothing is handed over
\* when that pointer is null; from then on every node of that chain is
\* destroyed, or still on the chain of a closure that waits or of the
\* destructor that runs; and in the end every such node is destroyed (a node
\* handed over stays handed over and a destroyed node stays destroyed, so
\* each node handed over is destroyed some time after it was handed over).
C7_CasLeaksNothing ==
    /\ [][\A t \in Thread :
             Returns(t, "cas_cas") =>
                LET given == IF last'.ok THEN old[t] ELSE node[t]
                IN  /\ given # NULL =>
                          /\ Owns(deferred', given)
                          /\ Len(deferred') = Len(deferred) + 1
                    /\ given = NULL => Len(deferred') = Len(deferred)]_vars
    /\ [](\A n \in casHanded :
             \/ destroyed[n] > 0
             \/ n \in Chain(dropping)
             \/ \E i \in 1..Len(deferred) : n \in Chain(deferred[i].node))
    /\ [][/\ casHanded \subseteq casHanded'
          /\ \A n \in Node : destroyed[n] > 0 => destroyed'[n] > 0]_vars
    /\ <>[](\A n \in casHanded : destroyed[n] > 0)

\* C7, its case: a chain of two nodes was handed over by a cas and its
\* second node has been destroyed.
C7_Witness ==
    \E n \in casHanded :
       /\ next[n] \in casHanded
       /\ destroyed[next[n]] > 0
       /\ unlinkedBy[n] = 0 /\ unlinkedBy[next[n]] = 0

\* C8: compare_and_push(old, value) succeeds if and only if old equals head
\* at its compare-and-swap; on success the new node carries value, its next
\* is old, it is the new head, and the pointer returned is that head (so a
\* cap that passes it as old next succeeds unless head changes first).
C8_CapStep ==
    [][\A t \in Thread :
          Returns(t, "cap_cas") =>
             /\ last'.op = "cap" /\ last'.t = t
             /\ last'.ok <=> (old[t] = head)
             /\ last'.ok => /\ last'.ptr # NULL
                            /\ head' = last'.ptr
                            /\ inner'[last'.ptr] = arg[t]
                            /\ next'[last'.ptr] = old[t]
                            /\ destroyed'[last'.ptr] = 0]_vars

\* C8, its case: a cap onto a non-empty stack has succeeded.
C8_Witness ==
    /\ last.op = "cap" /\ last.ok
    /\ head = last.ptr
    /\ next[head] # NULL

\* C9: a failed compare_and_push leaves head and every linked node as they
\* were and returns the current head; the candidate is handed to deferred
\* destruction with its next reset to null, its next stays null, and the
\* destructor of that closure (the first to reach the candidate, which no
\* other thread can see until then) destroys the candidate and no other node.
C9_CapFailure ==
    /\ [][\A t \in Thread :
             (Returns(t, "cap_cas") /\ ~last'.ok) =>
                /\ head' = head
                /\ last'.ptr = head
                /\ inner' = inner
                /\ \A n \in Node \ {node[t]} : next'[n] = next[n]
                /\ next'[node[t]] = NULL
                /\ Owns(deferred', node[t])
                /\ node[t] \notin Chain(head)]_vars
    /\ [](\A n \in capFailed :
             /\ next[n] = NULL
             /\ destroyed[n] = 0 => n \notin Chain(head))
    /\ [][(dropRoot \in capFailed /\ destroyed[dropRoot] = 0
                                  /\ destroyed' # destroyed) =>
             /\ dropping = dropRoot
             /\ dropping' = NULL
             /\ \A n \in Node \ {dropRoot} : destroyed'[n] = destroyed[n]
             /\ destroyed'[dropRoot] = 1]_vars

\* C9, its case: a cap failed against a non-empty stack, and the destructor
\* of its candidate has run while the stack was still linked.
C9_Witness ==
    \E n \in capFailed :
       /\ destroyed[n] = 1
       /\ dropping = NULL
       /\ head # NULL
       /\ destroyed[head] = 0

\* C14: _pop on a null head returns None in that same step: a _pop that
\* loaded null as head (at its start, or as the current head a failed
\* compare_and_set reported) does nothing but return None, whatever has been
\* pushed since, and that return leaves head, every node and the deferred
\* closures as they are; when it takes place right at a null head, head is
\* still null after it.
C14_PopOnNull ==
    /\ [][\A t \in Thread :
             (pc[t] = "idle" /\ pc'[t] = "pop_loop" /\ head = NULL)
                => hd'[t] = NULL]_vars
    /\ [][\A t \in Thread :
             (/\ pc[t] = "pop_loop" /\ hd[t] = NULL
              /\ <<pc[t], hd[t], nxt[t]>>' # <<pc[t], hd[t], nxt[t]>>)
                => /\ pc'[t] = "idle"
                   /\ last' = Outcome(t, "pop", FALSE, NULL, None)
                   /\ head' = head
                   /\ <<inner, next, destroyed>>' = <<inner, next, destroyed>>
                   /\ Len(deferred') = Len(deferred)
                   /\ \A i \in 1..Len(deferred) :
                         deferred'[i].node = deferred[i].node]_vars

\* C14, its case: a _pop has returned None on a stack that held a node
\* before and is empty now.
C14_Witness ==
    /\ last.op = "pop" /\ ~last.ok
    /\ head = NULL
    /\ \E n \in Node : moved[n]

\* C20: once a successful compare_and_set has linked a node, its next never
\* changes again.  next is written only on a node no compare_and_set has
\* linked: at construction (a node allocated in that step), in the retry
\* loop of push on the node being pushed, and in the failure path of cap on
\* the candidate.
C20_NextFrozenOnceLinked ==
    [][\A n \in Node :
          next'[n] # next[n] =>
             /\ n \notin linked
             /\ n \notin Chain(head)
             /\ \/ n > nalloc
                \/ \E t \in Thread :
                      /\ n = node[t]
                      /\ \/ pc[t] = "push_load" /\ pc'[t] = "push_cas"
                         \/ pc[t] = "cap_cas" /\ pc'[t] = "idle"
                                              /\ ~last'.ok]_vars

\* C20, its case: a cap failed and reset the next of its candidate, and a
\* node linked on top of another one has been unlinked by a _pop and still
\* has the next it was linked with.
C20_Witness ==
    /\ \E c \in capFailed : destroyed[c] = 0
    /\ \E n \in linked :
          /\ next[n] # NULL /\ next[n] \in linked
          /\ unlinkedBy[n] = 1

\* The nodes a walk that follows next can be at after it was at node n: what
\* loading n.next can yield, null left out.
Succ(n) == LoadNext(n) \ {NULL}

\* The nodes a walk can reach from the nodes of front, those of seen already
\* visited.
RECURSIVE WalkFrom(_, _)
WalkFrom(front, seen) ==
    IF front \subseteq seen THEN seen
    ELSE WalkFrom(UNION {Succ(n) : n \in front \ seen}, seen \cup front)

\* C18: at every reachable state the chain that starts at head is acyclic and
\* finite: a walk that starts at head and follows next visits no node twice,
\* so it reaches null.
C18_HeadChainAcyclic ==
    \A n \in WalkFrom({head} \ {NULL}, {}) : n \notin WalkFrom(Succ(n), {})

\* C19: no ABA in _pop and cap.  Whenever the compare_and_set of a _pop
\* succeeds, the node it unlinks is the one whose next it read (it has not
\* been reclaimed since it was loaded, so its address stands for no other
\* node), the next it read is that node's successor at this instant, and the
\* new head is that successor, a live node or null; and whenever the
\* compare_and_set of a cap succeeds, the snapshot old it compared with is
\* null or a node that has not been reclaimed.
C19_NoStaleCas ==
    [][\A t \in Thread :
          /\ (pc[t] = "pop_cas" /\ pc'[t] = "pop_read") =>
                /\ destroyed[hd[t]] = 0
                /\ nxt[t] = next[hd[t]]
                /\ head' = next[hd[t]]
                /\ head' # NULL => destroyed[head'] = 0
          /\ (pc[t] = "cap_cas" /\ pc'[t] = "idle" /\ last'.ok) =>
                (old[t] # NULL => destroyed[old[t]] = 0)]_vars

\* Thread t takes a step of the walk of its StackIter.
IterActs(t) ==
    /\ pc[t] = "iter_loop"
    /\ \/ <<pc[t], cur[t]>>' # <<pc[t], cur[t]>>
       \/ last' # last /\ last'.op = "iter" /\ last'.t = t

\* C16: a StackIter yields, top to bottom, the value of every node on the
\* chain that starts at its snapshot, and stops at null: each call of next
\* on a cursor that is not null yields the value of the node at the cursor
\* and moves the cursor to that node's next, and the call on a null cursor
\* yields None (the first call, for a null snapshot); and the walk only
\* reads: no step of it changes head, a node's next or value, destroys a
\* node or hands anything to deferred destruction.
C16_IterWalksChain ==
    [][\A t \in Thread :
          IterActs(t) =>
             /\ <<head, inner, next, destroyed>>' = <<head, inner, next, destroyed>>
             /\ Len(deferred') = Len(deferred)
             /\ \A i \in 1..Len(deferred) :
                   deferred'[i].node = deferred[i].node
             /\ last'.op = "iter" /\ last'.t = t
             /\ IF cur[t] = NULL
                THEN ~last'.ok /\ pc'[t] = "idle"
                ELSE /\ last'.ok
                     /\ last'.val = inner[cur[t]]
                     /\ cur'[t] = next[cur[t]]
                     /\ pc'[t] = "iter_loop"]_vars

\* The node a pinned thread holds a pointer to and dereferences in its next
\* step: the head snapshot of _pop, from which it loads next and reads the
\* value, and the cursor of a StackIter.
HoldsToDeref(t) ==
    (IF pc[t] \in {"pop_loop", "pop_cas", "pop_read"} THEN {hd[t]} ELSE {})
    \cup (IF pc[t] = "iter_loop" THEN {cur[t]} ELSE {})

\* C11: no node is destroyed while a pinned thread holds a pointer to it
\* that it obtained under its guard: the node such a thread is about to
\* dereference has not been destroyed.
C11_NoPinnedUseAfterFree ==
    \A t \in PinnedNow : \A n \in HoldsToDeref(t) \ {NULL} : destroyed[n] = 0

\* The positions of a push or _pop call in progress.
PushPopPc == {"push_cas", "push_load", "pop_loop", "pop_cas", "pop_read"}

\* The calls that have returned so far: those started less those in
\* progress.
Completed == nops - Cardinality({t \in Thread : pc[t] # "idle"})

\* Thread t wins a compare_and_set on head in this step.
CasWon(t) ==
    \/ pc[t] = "push_cas" /\ pc'[t] = "idle"
    \/ pc[t] = "pop_cas" /\ pc'[t] = "pop_read"
    \/ pc[t] = "cap_cas" /\ pc'[t] = "idle" /\ last'.ok
    \/ pc[t] = "cas_cas" /\ pc'[t] = "idle" /\ last'.ok

\* C15: the stack is lock-free.  A push or _pop goes round its loop again
\* only when its compare_and_set failed, which is when head is no longer
\* what the call loaded; head changes only in a step in which some thread
\* wins a compare_and_set, and that thread is another one than a thread
\* waiting at its own compare_and_set; so each retry of one call is paid for
\* by the success of another.  Under fair scheduling, whenever a push or
\* _pop is in progress some call completes later: the number of completed
\* calls never decreases, and in the end no push or _pop is in progress.
\* Nothing bounds the retries of one call but the number of calls the other
\* threads complete meanwhile.
C15_LockFree ==
    /\ [][\A t \in Thread :
             retries'[t] > retries[t] =>
                /\ head # hd[t]
                /\ pc[t] \in {"push_cas", "pop_cas"}
                /\ pc'[t] \in {"push_load", "pop_loop"}]_vars
    /\ [][head' # head =>
             \E u \in Thread :
                /\ CasWon(u)
                /\ \A t \in Thread \ {u} : pc'[t] = pc[t]]_vars
    /\ [][Completed' >= Completed]_vars
    /\ <>[](\A t \in Thread : pc[t] \notin PushPopPc)

\* C15, its case: the compare_and_set of one push or _pop has failed twice
\* in the same call, while other calls completed.
C15_Witness ==
    \E t \in Thread :
       /\ retries[t] >= 2
       /\ pc[t] \in PushPopPc
       /\ Completed >= 2

\* Thread t calls the chain builder on a vector that is not empty, in the
\* step that takes it to the compare_and_set of its cas.
Builds(t) == pc[t] = "idle" /\ pc'[t] = "cas_cas" /\ nalloc' > nalloc

\* C12: the chain builder keeps the order of its input: the first element is
\* the top of the chain built, each later element follows, and the next of
\* the last node is null.  Hence when a chain built from a vector is
\* published with cas on the empty stack and the stack is drained by _pop,
\* the _pop calls return the elements of the vector in order, first element
\* first, and then None (for [1, 2, 3]: 1, 2, 3, None).
C12_BuildThenDrain ==
    /\ [][\A t \in Thread :
             Builds(t) =>
                LET from == FreshFrag(nalloc' - nalloc)
                IN  /\ node'[t] = FragLoop(from, Len(from), None)
                    /\ ChainVals(node[t], {})' = from
                    /\ Cardinality(Chain(node[t])') = Len(from)]_vars
    /\ [][\A t \in Thread :
             /\ Returns(t, "pop_read") =>
                   (last'.ok /\ last'.val = expect[t])
             /\ Returns(t, "pop_loop") =>
                   (~last'.ok /\ absStack = <<>>)]_vars

\* Thread t calls the chain builder on the empty vector in this step.
BuildsEmpty(t) ==
    /\ pc[t] = "idle" /\ pc'[t] # "idle"
    /\ last'.op = "build" /\ last'.t = t

\* C13: the chain builder called with an empty vector fails with a panic and
\* returns no handle, null or other: the calling thread unwinds, it never
\* holds a chain to publish and takes no further step, and the call changes
\* nothing of the stack: head, the nodes and the deferred closures are as
\* before.
C13_EmptyBuildPanics ==
    /\ [][\A t \in Thread :
             BuildsEmpty(t) =>
                /\ ~last'.ok
                /\ pc'[t] = "panicked"
                /\ <<head, inner, next, nalloc, destroyed, deferred>>'
                      = <<head, inner, next, nalloc, destroyed, deferred>>]_vars
    /\ [](\A t \in Thread : pc[t] = "panicked" => node[t] = NULL)
    /\ [][\A t \in Thread : pc[t] = "panicked" => pc'[t] = "panicked"]_vars

\* C13, its case: a thread has called the builder with an empty vector on a
\* stack that holds nodes, and another operation has returned since.
C13_Witness ==
    /\ \E t \in Thread : pc[t] = "panicked"
    /\ head # NULL
    /\ last.op \notin {"build", "none"}

\* C17: the teardown of a stack that holds N linked nodes frees those N
\* nodes and their N values once each, whatever calls came before and
\* whether or not their deferred destructors have run: from the drop of the
\* stack on no node of the chain at head is destroyed more than once and
\* none holds a value that a _pop has moved out, and once the destructor
\* started by the drop is through every node of that chain has been
\* destroyed exactly once.
C17_TeardownFreesOnce ==
    torn => \A n \in Chain(head) :
               /\ destroyed[n] <= 1
               /\ ~moved[n]
               /\ dropping = NULL => destroyed[n] = 1

====
